---- MODULE Spec2Model ----
(***************************************************************************)
(* Recording session controller of wispr (src/wispr.py).                   *)
(*                                                                         *)
(* The program keeps its session state in module globals that are read and *)
(* written, without a lock, by                                             *)
(*   - handler(event): the key monitor callback (one at a time, main loop),*)
(*   - one start_recording thread per accepted Down edge,                  *)
(*   - one stop_recording thread per accepted Up edge,                     *)
(*   - one websocket thread per session (ws_app.run_forever), which runs   *)
(*     on_ws_open / on_ws_message / on_ws_error / on_ws_close.             *)
(*                                                                         *)
(* Time is time.time() on a grid of 50 ms: one tick = 0.05 s.  Threads may *)
(* be arbitrarily slow: time may pass between any two steps.  A step of a  *)
(* thread runs from one blocking call (time.sleep, audio.open, a socket    *)
(* operation, Thread.join, paste_text) to the next; start_recording's      *)
(* guards and its first assignments are separate steps because no lock     *)
(* joins them.                                                             *)
(* TRIGGER_KEY is its default 'fn' (src/wispr.py:74), so handler takes the *)
(* branch of lines 520-534.  handler_active (lines 500-503, 557) is set    *)
(* and reset inside one handler call, which the monitor never re-enters,   *)
(* so it is FALSE between any two actions and is not kept as a variable.   *)
(***************************************************************************)
EXTENDS Integers, Sequences, FiniteSets, TLC

\* ------------------------------------------------------------ constants
\* program constants, in ticks of 50 ms
DEBOUNCE_DELAY == 6
MIN_RECORDING_DURATION == 10
CONNECTION_COOLDOWN == 60
ERROR_COOLDOWN == 200
POLICY_VIOLATION_COOLDOWN == 600
ERROR_WINDOW == 1200
COOLDOWN_CAP == 1200
JOIN_TIMEOUT == 60
POLICY_VIOLATION_CODE == 1008

\* ------------------------------------------------------------ bounds
\* value of time.time() when the process starts (all timestamps start at 0,
\* far in the past of it)
T0 == 2000
\* sessions (capture stream + websocket + websocket thread) per behaviour
MaxSessions == 2
\* stop_recording threads alive at the same time
MaxStops == 2
\* raw trigger events delivered to handler
MaxEvents == 3
\* debounce windows after T0 that the concurrent specification covers
Horizon == 3
\* final segments kept in the accumulator
MaxSegments == 2

\* sessions per behaviour when one thread runs at a time (SpecSeq)
MaxSeqSessions == 4
\* debounce windows after T0 that SpecSeq covers
SeqHorizon == 6
\* SpecCalm: debounce windows after T0 in which time passes window by window,
\* and base cooldowns that may pass on top of them
CalmWindows == 2
CalmCooldowns == 1
\* ticks after T0 that SpecTap covers
TapHorizon == 10
\* largest recent_errors SpecCooldown starts from
MaxErrors == 5

Sids == 1..(IF MaxSessions >= MaxSeqSessions THEN MaxSessions ELSE MaxSeqSessions)
StopIds == 1..MaxStops
\* None for the references stream / ws_app / ws_thread
None == 0

VARIABLES
    now,                  \* time.time()
    trigger_pressed, last_trigger_time,
    recording, connecting, connection_active,
    recent_errors, last_stop_time, last_error_time, recording_start_time,
    stream, ws_app, ws_thread,      \* references: a session id or None
    stop_event,
    final_transcript,     \* sequence of tokens; <<>> is ""
    st,                   \* st[s]: position of the start_recording thread of session s
    stream_state,         \* stream_state[s]: the capture stream opened by session s
    wt,                   \* wt[s]: position of the websocket thread of session s
    closereq,             \* closereq[s]: ws_app.close() was called on session s's app
    sp,                   \* sp[j]: stop_recording thread j (position and locals)
    fw,                   \* fw[s]: position of the stream_audio thread of session s
    termreq,              \* termreq[s]: a Terminate message was sent on session s's websocket
    \* history variables (observations, never read by the program)
    evlog,                \* trigger events and stream openings, where a specification logs them
    pasted,               \* the arguments of paste_text, in call order
    start_obs,            \* outcome of the latest start_recording guard
    stop_obs,             \* outcome of the latest stop_recording call
    paste_obs,            \* the latest paste_text call, as the transcript log shows it
    ends,                 \* how and when sessions ended, in order
    dropped,              \* the accumulator holds text of a session that on_ws_error
                          \* ended while it was recording and no stop_recording ran
    acc_sessions          \* the sessions whose websocket threads added the segments
                          \* the accumulator holds

progvars == <<trigger_pressed, last_trigger_time, recording, connecting,
              connection_active, recent_errors, last_stop_time, last_error_time,
              recording_start_time, stream, ws_app, ws_thread, stop_event,
              final_transcript>>
threadvars == <<st, stream_state, wt, closereq, sp, fw, termreq>>
histvars == <<evlog, pasted, start_obs, stop_obs,
                   paste_obs, ends, dropped,
              acc_sessions>>
vars == <<now, progvars, threadvars, histvars>>

\* ------------------------------------------------------------ helpers
Min(a, b) == IF a <= b THEN a ELSE b

RECURSIVE Pow2(_)
Pow2(n) == IF n <= 0 THEN 1 ELSE 2 * Pow2(n - 1)

SetMin(S) == CHOOSE x \in S : \A y \in S : x <= y

\* ws_thread.is_alive()
Alive(s) == wt[s] \notin {"none", "dead"}
\* ws_app.sock is truthy: from run_forever's connect until its teardown
SockSet(s) == wt[s] \in {"connect", "open", "errored"}
\* ws_app.sock.connected
Connected(s) == wt[s] = "open"

\* a stop_recording thread: its position, the branch it took, and its locals
\* thread_to_join, the time its join began and the argument of its paste_text
NoStop == [pc |-> "idle", path |-> "none", at |-> 0, ttj |-> None, join_start |-> 0,
           text |-> <<>>]


\* ------------------------------------------------------------ initial state
\* src/wispr.py:94-136: the module globals as the import leaves them
Init ==
    /\ now = T0
    /\ trigger_pressed = FALSE
    /\ last_trigger_time = 0
    /\ recording = FALSE
    /\ connecting = FALSE
    /\ connection_active = FALSE
    /\ recent_errors = 0
    /\ last_stop_time = 0
    /\ last_error_time = 0
    /\ recording_start_time = 0
    /\ stream = None
    /\ ws_app = None
    /\ ws_thread = None
    /\ stop_event = FALSE
    /\ final_transcript = <<>>
    /\ st = [s \in Sids |-> "idle"]
    /\ stream_state = [s \in Sids |-> "none"]
    /\ wt = [s \in Sids |-> "none"]
    /\ closereq = [s \in Sids |-> FALSE]
    /\ sp = [j \in StopIds |-> NoStop]
    /\ evlog = <<>>
    /\ pasted = <<>>
    /\ start_obs = [result |-> "none", need |-> 0]
    /\ stop_obs = "none"
    /\ paste_obs = "none"
    /\ ends = <<>>
    /\ dropped = FALSE
    /\ fw = [s \in Sids |-> "none"]
    /\ termreq = [s \in Sids |-> FALSE]
    /\ acc_sessions = {}

\* ------------------------------------------------------------ time
\* d ticks pass
Tick(d) ==
    /\ now' = now + d
    /\ UNCHANGED <<progvars, threadvars, histvars>>

\* ------------------------------------------------------------ handler
\* a session slot no thread and no object uses
FreeSids(slots) == {s \in slots : st[s] = "idle" /\ wt[s] = "none" /\ stream_state[s] = "none"}
FreeStops == {j \in StopIds : sp[j].pc = "idle"}

\* handler without the debounce of line 507
handler_NoDebounce(pressed, slots) ==
    LET current_time == now
        debounced == FALSE
        down == ~debounced /\ pressed /\ ~trigger_pressed
        up == ~debounced /\ ~pressed /\ trigger_pressed
    IN  /\ down => FreeSids(slots) # {}
        /\ up => FreeStops # {}
        /\ IF down
             THEN /\ trigger_pressed' = TRUE
                  /\ last_trigger_time' = current_time
                  /\ st' = [st EXCEPT ![SetMin(FreeSids(slots))] = "guard"]
                  /\ sp' = sp
             ELSE IF up
             THEN /\ trigger_pressed' = FALSE
                  /\ last_trigger_time' = current_time
                  /\ sp' = [sp EXCEPT ![SetMin(FreeStops)] = [NoStop EXCEPT !.pc = "guard"]]
                  /\ st' = st
             ELSE UNCHANGED <<trigger_pressed, last_trigger_time, st, sp>>
        /\ UNCHANGED <<now, recording, connecting, connection_active, recent_errors,
                       last_stop_time, last_error_time, recording_start_time, stream,
                       ws_app, ws_thread, stop_event, final_transcript, stream_state,
                       wt, closereq, pasted, start_obs, stop_obs,
                       paste_obs, ends, dropped,
                       fw, termreq, acc_sessions>>

\* handler that starts and stops whatever trigger_pressed says
handler_NoPolarity(pressed, slots) ==
    LET current_time == now
        debounced == current_time - last_trigger_time < DEBOUNCE_DELAY
        down == ~debounced /\ pressed
        up == ~debounced /\ ~pressed
    IN  /\ down => FreeSids(slots) # {}
        /\ up => FreeStops # {}
        /\ IF down
             THEN /\ trigger_pressed' = TRUE
                  /\ last_trigger_time' = current_time
                  /\ st' = [st EXCEPT ![SetMin(FreeSids(slots))] = "guard"]
                  /\ sp' = sp
             ELSE IF up
             THEN /\ trigger_pressed' = FALSE
                  /\ last_trigger_time' = current_time
                  /\ sp' = [sp EXCEPT ![SetMin(FreeStops)] = [NoStop EXCEPT !.pc = "guard"]]
                  /\ st' = st
             ELSE UNCHANGED <<trigger_pressed, last_trigger_time, st, sp>>
        /\ UNCHANGED <<now, recording, connecting, connection_active, recent_errors,
                       last_stop_time, last_error_time, recording_start_time, stream,
                       ws_app, ws_thread, stop_event, final_transcript, stream_state,
                       wt, closereq, pasted, start_obs, stop_obs,
                       paste_obs, ends, dropped,
                       fw, termreq, acc_sessions>>

\* handler(event) for an event of the trigger key whose flags say `pressed`
\* (fn_currently_pressed).  threading.Thread(target=start_recording).start()
\* puts a start_recording thread at its first line, likewise stop_recording.
handler(pressed, slots) ==
    LET current_time == now
        debounced == current_time - last_trigger_time < DEBOUNCE_DELAY
        down == ~debounced /\ pressed /\ ~trigger_pressed
        up == ~debounced /\ ~pressed /\ trigger_pressed
    IN  /\ down => FreeSids(slots) # {}
        /\ up => FreeStops # {}
        /\ IF down
             THEN /\ trigger_pressed' = TRUE
                  /\ last_trigger_time' = current_time
                  /\ st' = [st EXCEPT ![SetMin(FreeSids(slots))] = "guard"]
                  /\ sp' = sp
             ELSE IF up
             THEN /\ trigger_pressed' = FALSE
                  /\ last_trigger_time' = current_time
                  /\ sp' = [sp EXCEPT ![SetMin(FreeStops)] = [NoStop EXCEPT !.pc = "guard"]]
                  /\ st' = st
             ELSE UNCHANGED <<trigger_pressed, last_trigger_time, st, sp>>
        /\ UNCHANGED <<now, recording, connecting, connection_active, recent_errors,
                       last_stop_time, last_error_time, recording_start_time, stream,
                       ws_app, ws_thread, stop_event, final_transcript, stream_state,
                       wt, closereq, pasted, start_obs, stop_obs,
                       paste_obs, ends, dropped,
                       fw, termreq, acc_sessions>>

\* the record of one raw trigger event; an accepted edge is one that flipped
\* trigger_pressed (lines 526, 532)
LogEvent(pressed) ==
    evlog' = Append(evlog, [ev |-> IF pressed THEN "down" ELSE "up", at |-> now,
                            acc |-> trigger_pressed' # trigger_pressed])

\* the record of one stream opening (on_ws_open)
LogOpen ==
    evlog' = Append(evlog, [ev |-> "open", at |-> now, acc |-> TRUE])

\* ------------------------------------------------------------ start_recording
\* the error count never reset, however old the last error
ErrorsAfterReset_Never(errs, age) == errs

\* lines 285-287: the error count start_recording goes on with
ErrorsAfterReset(errs, age) == IF age > ERROR_WINDOW THEN 0 ELSE errs

\* cooldown_needed with the base cooldown forgotten when there is no recent error
CooldownNeeded_NoBase(errs, age) ==
    LET e == ErrorsAfterReset(errs, age)
    IN  IF e > 0 /\ age < ERROR_WINDOW
        THEN Min(ERROR_COOLDOWN * Pow2(e - 1), COOLDOWN_CAP)
        ELSE 0

\* cooldown_needed with the backoff left uncapped
CooldownNeeded_NoCap(errs, age) ==
    LET e == ErrorsAfterReset(errs, age)
    IN  IF e > 0 /\ age < ERROR_WINDOW
        THEN ERROR_COOLDOWN * Pow2(e - 1)
        ELSE CONNECTION_COOLDOWN

\* lines 283-293: cooldown_needed, from recent_errors as start_recording finds it
\* and age = current_time - last_error_time
CooldownNeeded(errs, age) ==
    LET e == ErrorsAfterReset(errs, age)
    IN  IF e > 0 /\ age < ERROR_WINDOW
        THEN Min(ERROR_COOLDOWN * Pow2(e - 1), COOLDOWN_CAP)
        ELSE CONNECTION_COOLDOWN

\* lines 267-297: the guards of start_recording, thread of slot s
StartGuard(s) ==
    LET current_time == now
        age == current_time - last_error_time
        need == CooldownNeeded(recent_errors, age)
        early == IF recording \/ connecting \/ connection_active THEN "busy"
                 ELSE IF ws_thread # None /\ Alive(ws_thread) THEN "thread"
                 ELSE IF ws_app # None /\ SockSet(ws_app) THEN "sock"
                 ELSE "pass"
    IN  /\ st[s] = "guard"
        /\ IF early # "pass"
             THEN /\ st' = [st EXCEPT ![s] = "idle"]
                  /\ start_obs' = [result |-> early, need |-> 0]
                  /\ recent_errors' = recent_errors
             ELSE /\ recent_errors' = ErrorsAfterReset(recent_errors, age)
                  /\ start_obs' = [result |-> IF current_time - last_stop_time < need
                                                THEN "cooldown" ELSE "accepted",
                                   need |-> need]
                  /\ st' = [st EXCEPT ![s] = IF current_time - last_stop_time < need
                                               THEN "idle" ELSE "set"]
        /\ UNCHANGED <<now, trigger_pressed, last_trigger_time, recording, connecting,
                       connection_active, last_stop_time, last_error_time,
                       recording_start_time, stream, ws_app, ws_thread, stop_event,
                       final_transcript, stream_state, wt, closereq, sp, evlog, pasted,
                       stop_obs, paste_obs, ends, dropped,
                       fw, termreq, acc_sessions>>

\* lines 299-302
StartSet(s) ==
    /\ st[s] = "set"
    /\ connecting' = TRUE
    /\ recording' = FALSE
    /\ final_transcript' = <<>>
    /\ stop_event' = FALSE
    /\ st' = [st EXCEPT ![s] = "open"]
    /\ dropped' = FALSE
    /\ acc_sessions' = {}
    /\ UNCHANGED <<now, trigger_pressed, last_trigger_time, connection_active,
                   recent_errors, last_stop_time, last_error_time, recording_start_time,
                   stream, ws_app, ws_thread, stream_state, wt, closereq, sp,
                   evlog, pasted, start_obs, stop_obs, paste_obs, ends,
                   fw, termreq>>

\* how the try block of lines 304-327 ends: the websocket thread is started, or
\* audio.open raises, or the stream is opened and creating or starting the
\* websocket raises
StartOutcomes == {"started", "no_stream", "no_websocket"}

\* start_recording without the except block's reset of connecting
StartOpen_StaysConnecting(s, outcome) ==
    /\ st[s] = "open"
    /\ IF outcome = "started"
         THEN /\ stream_state' = [stream_state EXCEPT ![s] = "open"]
              /\ stream' = s
              /\ ws_app' = s
              /\ ws_thread' = s
              /\ wt' = [wt EXCEPT ![s] = "connect"]
              /\ st' = [st EXCEPT ![s] = "done"]
              /\ UNCHANGED <<connecting, recording, connection_active>>
         ELSE /\ connecting' = connecting
              /\ recording' = FALSE
              /\ connection_active' = FALSE
              /\ st' = [st EXCEPT ![s] = "idle"]
              /\ IF outcome = "no_websocket"
                   THEN /\ stream_state' = [stream_state EXCEPT ![s] = "open"]
                        /\ stream' = s
                   ELSE UNCHANGED <<stream, stream_state>>
              /\ UNCHANGED <<ws_app, ws_thread, wt>>
    /\ UNCHANGED <<now, trigger_pressed, last_trigger_time, recent_errors,
                   last_stop_time, last_error_time, recording_start_time,
                   stop_event, final_transcript, closereq, sp, histvars,
                   fw, termreq>>

\* audio.open returns: lines 306-327 (the stream, the WebSocketApp and its thread,
\* whose run_forever starts connecting) or, when something raises, lines 329-333
StartOpen(s, outcome) ==
    /\ st[s] = "open"
    /\ IF outcome = "started"
         THEN /\ stream_state' = [stream_state EXCEPT ![s] = "open"]
              /\ stream' = s
              /\ ws_app' = s
              /\ ws_thread' = s
              /\ wt' = [wt EXCEPT ![s] = "connect"]
              /\ st' = [st EXCEPT ![s] = "done"]
              /\ UNCHANGED <<connecting, recording, connection_active>>
         ELSE /\ connecting' = FALSE
              /\ recording' = FALSE
              /\ connection_active' = FALSE
              /\ st' = [st EXCEPT ![s] = "idle"]
              /\ IF outcome = "no_websocket"
                   THEN /\ stream_state' = [stream_state EXCEPT ![s] = "open"]
                        /\ stream' = s
                   ELSE UNCHANGED <<stream, stream_state>>
              /\ UNCHANGED <<ws_app, ws_thread, wt>>
    /\ UNCHANGED <<now, trigger_pressed, last_trigger_time, recent_errors,
                   last_stop_time, last_error_time, recording_start_time,
                   stop_event, final_transcript, closereq, sp, histvars,
                   fw, termreq>>

\* ------------------------------------------------------------ cleanup_audio
\* cleanup_audio sets stop_event at once (line 418, part of the caller's step) and
\* goes on after the sleep of line 424.  Lines 421-448: the capture stream and the
\* websocket the globals name at that moment, and the thread reference
cleanup_audio ==
    /\ IF stream # None
         THEN /\ stream_state' = [stream_state EXCEPT ![stream] = "closed"]
              /\ stream' = None
         ELSE UNCHANGED <<stream, stream_state>>
    /\ IF ws_app # None
         THEN /\ closereq' = [closereq EXCEPT ![ws_app] = TRUE]
              /\ ws_app' = None
         ELSE UNCHANGED <<ws_app, closereq,
                          fw, termreq>>
    /\ ws_thread' = None

\* ------------------------------------------------------------ websocket callbacks
\* on_ws_open, lines 183-188, on the websocket thread of session s
on_ws_open(s) ==
    /\ wt[s] = "connect"
    /\ connecting' = FALSE
    /\ recording' = TRUE
    /\ connection_active' = TRUE
    /\ recording_start_time' = now
    /\ wt' = [wt EXCEPT ![s] = "open"]
    /\ fw' = [fw EXCEPT ![s] = "poll"]
    /\ UNCHANGED <<now, trigger_pressed, last_trigger_time, recent_errors,
                   last_stop_time, last_error_time, stream, ws_app, ws_thread,
                   stop_event, final_transcript, st, stream_state, closereq, sp,
                   termreq, pasted, start_obs, stop_obs, paste_obs, ends, dropped, acc_sessions>>

\* stream_audio (lines 190-199), the thread on_ws_open starts for session s.  It
\* reads the globals recording, stop_event and stream, whichever session they
\* belong to now, and sends on the websocket of session s.
\* lines 192-196: the loop condition; when it holds and the stream is active, one
\* buffer is read (`read`: stream.read returns data, otherwise it raises and the
\* loop breaks, lines 197-199) and ws.send is called
FwPoll(s, read) ==
    /\ fw[s] = "poll"
    /\ IF recording /\ ~stop_event
         THEN /\ stream # None /\ stream_state[stream] = "open"
              /\ fw' = [fw EXCEPT ![s] = IF read THEN "send" ELSE "done"]
         ELSE /\ read
              /\ fw' = [fw EXCEPT ![s] = "done"]
    /\ UNCHANGED <<now, progvars, st, stream_state, wt, closereq, sp, termreq, histvars>>

\* a failed ws.send that ends the session as a transport error does
FwSend_EndsSession(s, sent) ==
    /\ fw[s] = "send"
    /\ sent => Connected(s)
    /\ fw' = [fw EXCEPT ![s] = IF sent THEN "poll" ELSE "done"]
    /\ recording' = (sent /\ recording)
    /\ connection_active' = (sent /\ connection_active)
    /\ UNCHANGED <<now, trigger_pressed, last_trigger_time, connecting, recent_errors,
                   last_stop_time, last_error_time, recording_start_time, stream, ws_app,
                   ws_thread, stop_event, final_transcript, st, stream_state, wt,
                   closereq, sp, termreq, histvars>>

\* lines 196-199: ws.send returns (`sent`: the frame went out on a connected
\* websocket, otherwise it raises and the loop breaks)
FwSend(s, sent) ==
    /\ fw[s] = "send"
    /\ sent => Connected(s)
    /\ fw' = [fw EXCEPT ![s] = IF sent THEN "poll" ELSE "done"]
    /\ UNCHANGED <<now, progvars, st, stream_state, wt, closereq, sp, termreq, histvars>>

\* str.strip() on a sequence of tokens, " " being the whitespace token
RECURSIVE LStrip(_)
LStrip(t) == IF t # <<>> /\ Head(t) = " " THEN LStrip(Tail(t)) ELSE t
RECURSIVE RStrip(_)
RStrip(t) == IF t # <<>> /\ t[Len(t)] = " " THEN RStrip(SubSeq(t, 1, Len(t) - 1)) ELSE t
Strip(t) == RStrip(LStrip(t))

\* the inbound messages: type, data.get('transcript', ''), data.get('turn_is_formatted', False)
Messages ==
    {[type |-> "Begin", transcript |-> <<>>, formatted |-> FALSE],
     [type |-> "Termination", transcript |-> <<>>, formatted |-> FALSE]}
    \cup [type : {"Turn"},
          transcript : {<<>>, <<" ">>, <<"hello">>, <<"world">>, <<" ", "hello", " ">>},
          formatted : BOOLEAN]

\* partial turns kept like final ones
Accumulate_Partials(acc, msg) ==
    IF msg.type = "Turn" /\ Strip(msg.transcript) # <<>>
    THEN IF acc # <<>> THEN acc \o <<" ">> \o Strip(msg.transcript)
                       ELSE Strip(msg.transcript)
    ELSE acc

\* the accumulator replaced by the latest segment instead of extended
Accumulate_Replace(acc, msg) ==
    IF msg.type = "Turn" /\ msg.formatted /\ Strip(msg.transcript) # <<>>
    THEN Strip(msg.transcript)
    ELSE acc

\* the separator added even in front of the first segment
Accumulate_LeadingSeparator(acc, msg) ==
    IF msg.type = "Turn" /\ msg.formatted /\ Strip(msg.transcript) # <<>>
    THEN acc \o <<" ">> \o Strip(msg.transcript)
    ELSE acc

\* lines 213-227: the accumulator after one message
Accumulate(acc, msg) ==
    IF msg.type = "Turn" /\ msg.formatted /\ Strip(msg.transcript) # <<>>
    THEN IF acc # <<>> THEN acc \o <<" ">> \o Strip(msg.transcript)
                       ELSE Strip(msg.transcript)
    ELSE acc

\* a Termination message taken as the end of the session
on_ws_message_TerminationEnds(s, msg) ==
    /\ wt[s] = "open"
    /\ final_transcript' = Accumulate(final_transcript, msg)
    /\ acc_sessions' = IF Accumulate(final_transcript, msg) # final_transcript
                       THEN acc_sessions \cup {s} ELSE acc_sessions
    /\ recording' = (recording /\ msg.type # "Termination")
    /\ connection_active' = (connection_active /\ msg.type # "Termination")
    /\ UNCHANGED <<now, trigger_pressed, last_trigger_time, connecting,
                   recent_errors, last_stop_time, last_error_time,
                   recording_start_time, stream, ws_app, ws_thread, stop_event,
                   threadvars, pasted, start_obs, stop_obs, paste_obs, ends, dropped>>

\* as on_ws_message, but a final Turn pastes the accumulated text at once
on_ws_message_PastesFinal(s, msg) ==
    /\ wt[s] = "open"
    /\ final_transcript' = Accumulate(final_transcript, msg)
    /\ acc_sessions' = IF Accumulate(final_transcript, msg) # final_transcript
                       THEN acc_sessions \cup {s} ELSE acc_sessions
    /\ pasted' = IF Accumulate(final_transcript, msg) # final_transcript
                 THEN Append(pasted, Accumulate(final_transcript, msg)) ELSE pasted
    /\ UNCHANGED <<now, trigger_pressed, last_trigger_time, recording, connecting,
                   connection_active, recent_errors, last_stop_time, last_error_time,
                   recording_start_time, stream, ws_app, ws_thread, stop_event,
                   threadvars, start_obs, stop_obs, paste_obs, ends, dropped>>

\* on_ws_message, lines 203-235
on_ws_message(s, msg) ==
    /\ wt[s] = "open"
    /\ final_transcript' = Accumulate(final_transcript, msg)
    /\ acc_sessions' = IF Accumulate(final_transcript, msg) # final_transcript
                       THEN acc_sessions \cup {s} ELSE acc_sessions
    /\ UNCHANGED <<now, trigger_pressed, last_trigger_time, recording, connecting,
                   connection_active, recent_errors, last_stop_time, last_error_time,
                   recording_start_time, stream, ws_app, ws_thread, stop_event,
                   threadvars, pasted, start_obs, stop_obs, paste_obs, ends, dropped>>

\* the record of one inbound message; acc is turn_is_formatted
LogTurn(msg) ==
    evlog' = Append(evlog, [ev |-> IF msg.type = "Turn" THEN "turn" ELSE "other",
                            at |-> now, acc |-> msg.formatted, text |-> msg.transcript])

\* on_ws_error, lines 237-244: a failed handshake or a transport error; run_forever
\* then tears the connection down and calls on_close(None, None)
on_ws_error(s) ==
    /\ wt[s] \in {"connect", "open"}
    /\ stop_event' = TRUE
    /\ recording' = FALSE
    /\ connecting' = FALSE
    /\ connection_active' = FALSE
    /\ wt' = [wt EXCEPT ![s] = "errored"]
    /\ ends' = IF (recording \/ connecting) /\ ws_app = s
               THEN Append(ends, <<"error", now>>) ELSE ends
    /\ dropped' = IF recording /\ wt[s] = "open" /\ \A j \in StopIds : sp[j].pc = "idle"
                  THEN final_transcript # <<>> ELSE dropped
    /\ UNCHANGED <<now, trigger_pressed, last_trigger_time, recent_errors,
                   last_stop_time, last_error_time, recording_start_time, stream,
                   ws_app, ws_thread, final_transcript, st, stream_state, closereq, sp,
                   fw, termreq, evlog, pasted, start_obs, stop_obs, paste_obs, acc_sessions>>

\* the close codes the remote side sends; 0 is close_status_code None
RemoteCodes == {1000, POLICY_VIOLATION_CODE, 1011}

\* on_ws_close, lines 248-260 up to cleanup_audio's stop_event.set(), line 418:
\* after on_ws_error, after a local ws_app.close(), or a close frame with `code`
on_ws_close(s, code) ==
    /\ \/ wt[s] = "errored" /\ code = 0
       \/ wt[s] \in {"connect", "open"} /\ closereq[s] /\ code = 0
       \/ wt[s] = "open" /\ code \in RemoteCodes
    /\ IF code = POLICY_VIOLATION_CODE
         THEN /\ recent_errors' = recent_errors + 1
              /\ last_error_time' = now
              /\ last_stop_time' = now + POLICY_VIOLATION_COOLDOWN - CONNECTION_COOLDOWN
         ELSE UNCHANGED <<recent_errors, last_error_time, last_stop_time>>
    /\ recording' = FALSE
    /\ connecting' = FALSE
    /\ connection_active' = FALSE
    /\ stop_event' = TRUE
    /\ wt' = [wt EXCEPT ![s] = "cleanup"]
    /\ ends' = IF (recording \/ connecting) /\ ws_app = s /\ code # 0
               THEN Append(ends, <<"close", now>>) ELSE ends
    /\ UNCHANGED <<now, trigger_pressed, last_trigger_time, recording_start_time,
                   stream, ws_app, ws_thread, final_transcript, st,
                   stream_state, closereq, sp, evlog, pasted, start_obs, stop_obs, paste_obs,
                   dropped,
                   fw, termreq, acc_sessions>>

\* on_ws_close, line 260: the rest of cleanup_audio; run_forever returns
WsCleanup(s) ==
    /\ wt[s] = "cleanup"
    /\ cleanup_audio
    /\ wt' = [wt EXCEPT ![s] = "dead"]
    /\ UNCHANGED <<now, trigger_pressed, last_trigger_time, recording, connecting,
                   connection_active, recent_errors, last_stop_time, last_error_time,
                   recording_start_time, stop_event, final_transcript, st, sp, fw, termreq,
                   histvars>>

\* ------------------------------------------------------------ stop_recording
\* a too-short stop counted as an error
StopGuard_TooShortCounts(j) ==
    LET current_time == now
        outcome ==
            IF ~recording /\ ~connecting /\ ~connection_active THEN "idle"
            ELSE IF recording_start_time > 0
                 THEN IF current_time - recording_start_time < MIN_RECORDING_DURATION
                      THEN "tooshort" ELSE "normal"
            ELSE IF connecting THEN "connecting"
            ELSE "normal"
    IN  /\ sp[j].pc = "guard"
        /\ stop_obs' = outcome
        /\ IF outcome \in {"idle", "connecting"}
             THEN /\ sp' = [sp EXCEPT ![j] = NoStop]
                  /\ UNCHANGED <<recording, connecting, connection_active,
                                 recording_start_time, last_stop_time, stop_event, ends>>
             ELSE /\ recording' = FALSE
                  /\ connecting' = FALSE
                  /\ connection_active' = FALSE
                  /\ recording_start_time' = 0
                  /\ last_stop_time' = IF outcome = "normal" THEN current_time
                                       ELSE last_stop_time
                  /\ stop_event' = IF outcome = "normal" THEN stop_event ELSE TRUE
                  /\ sp' = [sp EXCEPT ![j] = [NoStop EXCEPT
                                !.pc = IF outcome = "normal" THEN "term" ELSE "cleanup",
                                !.path = outcome]]
                  /\ ends' = Append(ends, <<outcome, current_time>>)
        /\ recent_errors' = IF outcome = "tooshort" THEN recent_errors + 1 ELSE recent_errors
        /\ last_error_time' = IF outcome = "tooshort" THEN current_time ELSE last_error_time
        /\ UNCHANGED <<now, trigger_pressed, last_trigger_time, stream, ws_app, ws_thread,
                       final_transcript, st, stream_state, wt, closereq, evlog, pasted,
                       start_obs, paste_obs, dropped, fw, termreq, acc_sessions>>

\* stop_recording without the guard of lines 339-340
StopGuard_NoIdleCheck(j) ==
    LET current_time == now
        outcome ==
            IF recording_start_time > 0
                 THEN IF current_time - recording_start_time < MIN_RECORDING_DURATION
                      THEN "tooshort" ELSE "normal"
            ELSE IF connecting THEN "connecting"
            ELSE "normal"
    IN  /\ sp[j].pc = "guard"
        /\ stop_obs' = outcome
        /\ IF outcome \in {"idle", "connecting"}
             THEN /\ sp' = [sp EXCEPT ![j] = NoStop]
                  /\ UNCHANGED <<recording, connecting, connection_active,
                                 recording_start_time, last_stop_time, stop_event, ends>>
             ELSE /\ recording' = FALSE
                  /\ connecting' = FALSE
                  /\ connection_active' = FALSE
                  /\ recording_start_time' = 0
                  /\ last_stop_time' = IF outcome = "normal" THEN current_time
                                       ELSE last_stop_time
                  /\ stop_event' = IF outcome = "normal" THEN stop_event ELSE TRUE
                  /\ sp' = [sp EXCEPT ![j] = [NoStop EXCEPT
                                !.pc = IF outcome = "normal" THEN "term" ELSE "cleanup",
                                !.path = outcome]]
                  /\ ends' = Append(ends, <<outcome, current_time>>)
        /\ UNCHANGED <<now, trigger_pressed, last_trigger_time, recent_errors,
                       last_error_time, stream, ws_app, ws_thread,
                       final_transcript, st, stream_state, wt, closereq, evlog, pasted,
                       start_obs, paste_obs, dropped, fw, termreq, acc_sessions>>

\* lines 339-364, thread j; on the too-short path cleanup_audio (line 353) sets
\* stop_event at once (line 418)
StopGuard(j) ==
    LET current_time == now
        outcome ==
            IF ~recording /\ ~connecting /\ ~connection_active THEN "idle"
            ELSE IF recording_start_time > 0
                 THEN IF current_time - recording_start_time < MIN_RECORDING_DURATION
                      THEN "tooshort" ELSE "normal"
            ELSE IF connecting THEN "connecting"
            ELSE "normal"
    IN  /\ sp[j].pc = "guard"
        /\ stop_obs' = outcome
        /\ IF outcome \in {"idle", "connecting"}
             THEN /\ sp' = [sp EXCEPT ![j] = NoStop]
                  /\ UNCHANGED <<recording, connecting, connection_active,
                                 recording_start_time, last_stop_time, stop_event, ends>>
             ELSE /\ recording' = FALSE
                  /\ connecting' = FALSE
                  /\ connection_active' = FALSE
                  /\ recording_start_time' = 0
                  /\ last_stop_time' = IF outcome = "normal" THEN current_time
                                       ELSE last_stop_time
                  /\ stop_event' = IF outcome = "normal" THEN stop_event ELSE TRUE
                  /\ sp' = [sp EXCEPT ![j] = [NoStop EXCEPT
                                !.pc = IF outcome = "normal" THEN "term" ELSE "cleanup",
                                !.path = outcome]]
                  /\ ends' = Append(ends, <<outcome, current_time>>)
        /\ UNCHANGED <<now, trigger_pressed, last_trigger_time, recent_errors,
                       last_error_time, stream, ws_app, ws_thread,
                       final_transcript, st, stream_state, wt, closereq, evlog, pasted,
                       start_obs, paste_obs, dropped, fw, termreq, acc_sessions>>

\* The guards of stop_recording, lines 339-358, as a step of their own: the
\* thread that passes them on the normal path has read the clock (line 343) and
\* stands before line 360.  Any other outcome is StopGuard's.
StopCheck(j) ==
    \/ StopGuard(j) /\ stop_obs' # "normal"
    \/ /\ sp[j].pc = "guard"
       /\ recording \/ connecting \/ connection_active
       /\ IF recording_start_time > 0
            THEN now - recording_start_time >= MIN_RECORDING_DURATION
            ELSE ~connecting
       /\ stop_obs' = "normal"
       /\ sp' = [sp EXCEPT ![j] = [NoStop EXCEPT !.pc = "write", !.path = "normal",
                                                  !.at = now]]
       /\ UNCHANGED <<now, progvars, st, stream_state, wt, closereq, fw, termreq,
                      evlog, pasted, start_obs, paste_obs, ends, dropped, acc_sessions>>

\* lines 360-364 after StopCheck: the flags, and last_stop_time = current_time
\* with the clock value read at line 343
StopWrite(j) ==
    /\ sp[j].pc = "write"
    /\ recording' = FALSE
    /\ connecting' = FALSE
    /\ connection_active' = FALSE
    /\ recording_start_time' = 0
    /\ last_stop_time' = sp[j].at
    /\ sp' = [sp EXCEPT ![j].pc = "term"]
    /\ ends' = Append(ends, <<"normal", sp[j].at>>)
    /\ UNCHANGED <<now, trigger_pressed, last_trigger_time, recent_errors,
                   last_error_time, stream, ws_app, ws_thread, stop_event,
                   final_transcript, st, stream_state, wt, closereq, evlog, pasted,
                   start_obs, stop_obs, paste_obs, dropped, fw, termreq, acc_sessions>>

\* lines 366-374: the Terminate message, sent when the websocket is connected;
\* `sent` is whether ws_app.send went through (an exception is logged, line 374)
StopTerminate(j, sent) ==
    /\ sp[j].pc = "term"
    /\ termreq' = IF ws_app # None /\ SockSet(ws_app) /\ Connected(ws_app) /\ sent
                  THEN [termreq EXCEPT ![ws_app] = TRUE] ELSE termreq
    /\ sp' = [sp EXCEPT ![j].pc = "sig"]
    /\ UNCHANGED <<now, trigger_pressed, last_trigger_time, recording, connecting,
                   connection_active, recent_errors, last_stop_time, last_error_time,
                   recording_start_time, stream, ws_app, ws_thread, stop_event,
                   final_transcript, st, stream_state, wt, closereq, fw, histvars>>

\* the websocket closed without stop_event.set()
StopSignal_NoEvent(j) ==
    /\ sp[j].pc = "sig"
    /\ IF ws_app # None
         THEN /\ stop_event' = stop_event
              /\ sp' = [sp EXCEPT ![j].pc = "close"]
         ELSE /\ stop_event' = stop_event
              /\ sp' = [sp EXCEPT ![j].pc = "paste"]
    /\ UNCHANGED <<now, trigger_pressed, last_trigger_time, recording, connecting,
                   connection_active, recent_errors, last_stop_time, last_error_time,
                   recording_start_time, stream, ws_app, ws_thread, final_transcript,
                   st, stream_state, wt, closereq, histvars,
                   fw, termreq>>

\* lines 377-381: stop_event.set(); `if ws_app:` of line 377 skips to line 404
StopSignal(j) ==
    /\ sp[j].pc = "sig"
    /\ IF ws_app # None
         THEN /\ stop_event' = TRUE
              /\ sp' = [sp EXCEPT ![j].pc = "close"]
         ELSE /\ stop_event' = stop_event
              /\ sp' = [sp EXCEPT ![j].pc = "paste"]
    /\ UNCHANGED <<now, trigger_pressed, last_trigger_time, recording, connecting,
                   connection_active, recent_errors, last_stop_time, last_error_time,
                   recording_start_time, stream, ws_app, ws_thread, final_transcript,
                   st, stream_state, wt, closereq, histvars,
                   fw, termreq>>

\* lines 384-391: ws_app.close() and the start of the join; when there is nothing
\* to join (or ws_app became None: AttributeError, line 396) the finally block of
\* lines 398-401 runs at once
StopClose(j) ==
    /\ sp[j].pc = "close"
    /\ IF ws_app # None /\ ws_thread # None /\ Alive(ws_thread)
         THEN /\ closereq' = [closereq EXCEPT ![ws_app] = TRUE]
              /\ sp' = [sp EXCEPT ![j].pc = "join", ![j].ttj = ws_thread,
                                  ![j].join_start = now]
              /\ UNCHANGED <<ws_app, ws_thread>>
         ELSE /\ closereq' = IF ws_app # None THEN [closereq EXCEPT ![ws_app] = TRUE]
                             ELSE closereq
              /\ ws_app' = None
              /\ ws_thread' = None
              /\ sp' = [sp EXCEPT ![j].pc = "paste"]
    /\ UNCHANGED <<now, trigger_pressed, last_trigger_time, recording, connecting,
                   connection_active, recent_errors, last_stop_time, last_error_time,
                   recording_start_time, stream, stop_event, final_transcript, st,
                   stream_state, wt, fw, termreq, histvars>>

\* a join without timeout
StopJoin_Unbounded(j) ==
    /\ sp[j].pc = "join"
    /\ ~Alive(sp[j].ttj)
    /\ ws_app' = None
    /\ ws_thread' = None
    /\ sp' = [sp EXCEPT ![j].pc = "paste", ![j].ttj = None, ![j].join_start = 0]
    /\ UNCHANGED <<now, trigger_pressed, last_trigger_time, recording, connecting,
                   connection_active, recent_errors, last_stop_time, last_error_time,
                   recording_start_time, stream, stop_event, final_transcript, st,
                   stream_state, wt, closereq, histvars,
                   fw, termreq>>

\* lines 391-401: join(timeout=3.0) returns, then the finally block
StopJoin(j) ==
    /\ sp[j].pc = "join"
    /\ ~Alive(sp[j].ttj) \/ now - sp[j].join_start >= JOIN_TIMEOUT
    /\ ws_app' = None
    /\ ws_thread' = None
    /\ sp' = [sp EXCEPT ![j].pc = "paste", ![j].ttj = None, ![j].join_start = 0]
    /\ UNCHANGED <<now, trigger_pressed, last_trigger_time, recording, connecting,
                   connection_active, recent_errors, last_stop_time, last_error_time,
                   recording_start_time, stream, stop_event, final_transcript, st,
                   stream_state, wt, closereq, histvars,
                   fw, termreq>>

\* lines 404-408: the transcript log gets COMPLETE_TRANSCRIPT (line 407), then
\* paste_text(final_transcript) is called with the accumulator as it is now and
\* blocks (lines 470-477); with an empty accumulator line 411 follows at once,
\* cleanup_audio's stop_event.set() (line 418)
StopPaste(j) ==
    /\ sp[j].pc = "paste"
    /\ IF final_transcript # <<>>
         THEN /\ pasted' = Append(pasted, final_transcript)
              /\ sp' = [sp EXCEPT ![j].pc = "clear", ![j].text = final_transcript]
              /\ stop_event' = stop_event
              /\ paste_obs' = "logged"
         ELSE /\ pasted' = pasted
              /\ sp' = [sp EXCEPT ![j].pc = "cleanup"]
              /\ stop_event' = TRUE
              /\ paste_obs' = paste_obs
    /\ UNCHANGED <<now, trigger_pressed, last_trigger_time, recording, connecting,
                   connection_active, recent_errors, last_stop_time, last_error_time,
                   recording_start_time, stream, ws_app, ws_thread, final_transcript, st,
                   stream_state, wt, closereq, evlog, start_obs, stop_obs, ends, dropped,
                   fw, termreq, acc_sessions>>

\* how paste_text ends, by the transcript log: PASTED (line 489), PASTE_ERROR
\* after an exception (line 493), or nothing more than COMPLETE_TRANSCRIPT when
\* the clipboard could not be set (lines 465-467)
PasteOutcomes == {"pasted", "error", "logged"}

\* as StopClear, but an exception of paste_text ends stop_recording
StopClear_FailureEndsThread(j) ==
    /\ sp[j].pc = "clear"
    /\ paste_obs' \in PasteOutcomes
    /\ IF paste_obs' = "error"
         THEN /\ sp' = [sp EXCEPT ![j] = NoStop]
              /\ UNCHANGED <<final_transcript, stop_event, dropped, acc_sessions>>
         ELSE /\ final_transcript' = <<>>
              /\ stop_event' = TRUE
              /\ sp' = [sp EXCEPT ![j].pc = "cleanup", ![j].text = <<>>]
              /\ dropped' = FALSE
              /\ acc_sessions' = {}
    /\ UNCHANGED <<now, trigger_pressed, last_trigger_time, recording, connecting,
                   connection_active, recent_errors, last_stop_time, last_error_time,
                   recording_start_time, stream, ws_app, ws_thread, st,
                   stream_state, wt, closereq, evlog, pasted, start_obs, stop_obs, ends,
                   fw, termreq>>

\* paste_text returns, whichever way: line 409 clears the accumulator, then
\* line 411, cleanup_audio's stop_event.set() (line 418)
StopClear(j) ==
    /\ sp[j].pc = "clear"
    /\ paste_obs' \in PasteOutcomes
    /\ final_transcript' = <<>>
    /\ stop_event' = TRUE
    /\ sp' = [sp EXCEPT ![j].pc = "cleanup", ![j].text = <<>>]
    /\ dropped' = FALSE
    /\ acc_sessions' = {}
    /\ UNCHANGED <<now, trigger_pressed, last_trigger_time, recording, connecting,
                   connection_active, recent_errors, last_stop_time, last_error_time,
                   recording_start_time, stream, ws_app, ws_thread, st,
                   stream_state, wt, closereq, evlog, pasted, start_obs, stop_obs, ends,
                   fw, termreq>>

\* the rest of cleanup_audio (called at line 353 or 411); stop_recording returns
StopCleanup(j) ==
    /\ sp[j].pc = "cleanup"
    /\ cleanup_audio
    /\ sp' = [sp EXCEPT ![j] = NoStop]
    /\ UNCHANGED <<now, trigger_pressed, last_trigger_time, recording, connecting,
                   connection_active, recent_errors, last_stop_time, last_error_time,
                   recording_start_time, stop_event, final_transcript, st, wt, fw, termreq,
                   histvars>>

\* ------------------------------------------------------------ specification
\* the sessions of the concurrent specification
MainSids == 1..MaxSessions
\* the words kept in the accumulator stay below MaxSegments
RoomFor(msg) == Len(Accumulate(final_transcript, msg)) <= 2 * MaxSegments - 1

\* the messages of the concurrent specification
MainMessages == {m \in Messages : m.transcript \in {<<>>, <<"hello">>}}
\* time passes in steps of the debounce window
MainTicks == {DEBOUNCE_DELAY}

Next ==
    \/ \E d \in MainTicks : now + d <= T0 + Horizon * DEBOUNCE_DELAY /\ Tick(d)
    \/ \E pressed \in BOOLEAN : handler(pressed, MainSids) /\ UNCHANGED evlog
    \/ \E s \in MainSids : StartGuard(s)
    \/ \E s \in MainSids : StartSet(s)
    \/ \E s \in MainSids, outcome \in {"started", "no_stream"} : StartOpen(s, outcome)
    \/ \E s \in MainSids : on_ws_open(s) /\ UNCHANGED evlog
    \/ \E s \in MainSids, msg \in MainMessages : RoomFor(msg) /\ on_ws_message(s, msg) /\ UNCHANGED evlog
    \/ \E s \in MainSids : on_ws_error(s)
    \/ \E s \in MainSids, code \in RemoteCodes \cup {0} : on_ws_close(s, code)
    \/ \E s \in MainSids : WsCleanup(s)
    \/ \E j \in StopIds : StopGuard(j)
    \/ \E j \in StopIds : StopTerminate(j, TRUE)
    \/ \E j \in StopIds : StopSignal(j)
    \/ \E j \in StopIds : StopClose(j)
    \/ \E j \in StopIds : StopJoin(j)
    \/ \E j \in StopIds : StopPaste(j)
    \/ \E j \in StopIds : StopClear(j) /\ paste_obs' = "pasted"
    \/ \E j \in StopIds : StopCleanup(j)

Spec == Init /\ [][Next]_vars

\* ------------------------------------------------------------ transport errors
\* The same threads over a longer time when the only failure is a transport error:
\* audio.open succeeds, the remote side sends no close frame, and every Turn is a
\* final "hello".
\* debounce windows after T0 that SpecErrors covers
ErrorsHorizon == 4
ErrorsMessages == {m \in MainMessages : m.type = "Turn" /\ m.formatted /\ m.transcript # <<>>}

NextErrors ==
    \/ now + DEBOUNCE_DELAY <= T0 + ErrorsHorizon * DEBOUNCE_DELAY /\ Tick(DEBOUNCE_DELAY)
    \/ \E pressed \in BOOLEAN : handler(pressed, MainSids) /\ UNCHANGED evlog
    \/ \E s \in MainSids : StartGuard(s)
    \/ \E s \in MainSids : StartSet(s)
    \/ \E s \in MainSids : StartOpen(s, "started")
    \/ \E s \in MainSids : on_ws_open(s) /\ UNCHANGED evlog
    \/ \E s \in MainSids, msg \in ErrorsMessages :
          RoomFor(msg) /\ on_ws_message(s, msg) /\ UNCHANGED evlog
    \/ \E s \in MainSids : on_ws_error(s)
    \/ \E s \in MainSids : on_ws_close(s, 0)
    \/ \E s \in MainSids : WsCleanup(s)
    \/ \E j \in StopIds : StopGuard(j)
    \/ \E j \in StopIds : StopTerminate(j, TRUE)
    \/ \E j \in StopIds : StopSignal(j)
    \/ \E j \in StopIds : StopClose(j)
    \/ \E j \in StopIds : StopJoin(j)
    \/ \E j \in StopIds : StopPaste(j)
    \/ \E j \in StopIds : StopClear(j) /\ paste_obs' = "pasted"
    \/ \E j \in StopIds : StopCleanup(j)

SpecErrors == Init /\ [][NextErrors]_vars

\* ------------------------------------------------------------ a calm network
\* The same threads when the remote side never fails: every handshake succeeds,
\* no transport error, no close frame.  Time passes in debounce windows while the
\* first session is recorded and in whole base cooldowns (the time a join that
\* times out takes, line 391) after it.
CalmSids == 1..MaxSessions

NextCalm ==
    \/ now + DEBOUNCE_DELAY <= T0 + CalmWindows * DEBOUNCE_DELAY /\ Tick(DEBOUNCE_DELAY)
    \/ now + CONNECTION_COOLDOWN
            <= T0 + CalmWindows * DEBOUNCE_DELAY + CalmCooldowns * CONNECTION_COOLDOWN
       /\ Tick(CONNECTION_COOLDOWN)
    \/ \E pressed \in BOOLEAN : handler(pressed, CalmSids) /\ UNCHANGED evlog
    \/ \E s \in CalmSids : StartGuard(s)
    \/ \E s \in CalmSids : StartSet(s)
    \/ \E s \in CalmSids : StartOpen(s, "started")
    \/ \E s \in CalmSids : on_ws_open(s) /\ UNCHANGED evlog
    \/ \E s \in CalmSids, msg \in MainMessages : RoomFor(msg) /\ on_ws_message(s, msg) /\ UNCHANGED evlog
    \/ \E s \in CalmSids : on_ws_close(s, 0)
    \/ \E s \in CalmSids : WsCleanup(s)
    \/ \E j \in StopIds : StopGuard(j)
    \/ \E j \in StopIds : StopTerminate(j, TRUE)
    \/ \E j \in StopIds : StopSignal(j)
    \/ \E j \in StopIds : StopClose(j)
    \/ \E j \in StopIds : StopJoin(j)
    \/ \E j \in StopIds : StopPaste(j)
    \/ \E j \in StopIds : StopClear(j) /\ paste_obs' = "pasted"
    \/ \E j \in StopIds : StopCleanup(j)

SpecCalm == Init /\ [][NextCalm]_vars

\* ------------------------------------------------------------ one tap
\* One session slot, time in single ticks, every raw trigger event and every
\* stream opening logged.
TapSids == {1}
KeyEvents == {i \in DOMAIN evlog : evlog[i].ev \in {"down", "up"}}

NextTap ==
    \/ now + 1 <= T0 + TapHorizon /\ Tick(1)
    \/ \E pressed \in BOOLEAN :
          Cardinality(KeyEvents) < MaxEvents /\ handler(pressed, TapSids) /\ LogEvent(pressed)
    \/ \E s \in TapSids : StartGuard(s)
    \/ \E s \in TapSids : StartSet(s)
    \/ \E s \in TapSids : StartOpen(s, "started")
    \/ \E s \in TapSids : on_ws_open(s) /\ LogOpen
    \/ \E s \in TapSids, msg \in ErrorsMessages :
          RoomFor(msg) /\ on_ws_message(s, msg) /\ UNCHANGED evlog
    \/ \E s \in TapSids : on_ws_close(s, 0)
    \/ \E s \in TapSids : WsCleanup(s)
    \/ \E j \in StopIds : StopGuard(j)
    \/ \E j \in StopIds : StopTerminate(j, TRUE)
    \/ \E j \in StopIds : StopSignal(j)
    \/ \E j \in StopIds : StopClose(j)
    \/ \E j \in StopIds : StopJoin(j)
    \/ \E j \in StopIds : StopPaste(j)
    \/ \E j \in StopIds : StopClear(j) /\ paste_obs' = "pasted"
    \/ \E j \in StopIds : StopCleanup(j)

SpecTap == Init /\ [][NextTap]_vars

\* ------------------------------------------------------------ the handler alone
\* handler on every sequence of raw trigger events, each logged; the threads it
\* spawns write nothing that handler reads and are left where they start.  Time
\* passes in steps just below the debounce window and equal to it.
\* raw trigger events per behaviour of SpecKeys
KeysEvents == 5
\* debounce windows after T0 that SpecKeys covers
KeysHorizon == 4

NextKeys ==
    \/ \E d \in {DEBOUNCE_DELAY - 1, DEBOUNCE_DELAY} :
          now + d <= T0 + KeysHorizon * DEBOUNCE_DELAY /\ Tick(d)
    \/ \E pressed \in BOOLEAN :
          Len(evlog) < KeysEvents /\ handler(pressed, Sids) /\ LogEvent(pressed)

SpecKeys == Init /\ [][NextKeys]_vars

\* ------------------------------------------------------------ one dictation
\* One session slot on a calm network, every trigger event, stream opening and Turn
\* message logged.  Time passes in debounce windows and minimum durations.
DictateSids == {1}
\* minimum recording durations after T0 that SpecDictate covers
DictateHorizon == 2
\* Turn messages per behaviour of SpecDictate
MaxTurns == 2
Turns == {i \in DOMAIN evlog : evlog[i].ev = "turn"}
DictateMessages ==
    {m \in Messages : m.type = "Turn" /\ m.formatted /\ m.transcript \in {<<"hello">>, <<"world">>}}

NextDictate ==
    \/ \E d \in {DEBOUNCE_DELAY, MIN_RECORDING_DURATION} :
          now + d <= T0 + DictateHorizon * MIN_RECORDING_DURATION /\ Tick(d)
    \/ \E pressed \in BOOLEAN :
          Cardinality(KeyEvents) < MaxEvents /\ handler(pressed, DictateSids) /\ LogEvent(pressed)
    \/ \E s \in DictateSids : StartGuard(s)
    \/ \E s \in DictateSids : StartSet(s)
    \/ \E s \in DictateSids : StartOpen(s, "started")
    \/ \E s \in DictateSids : on_ws_open(s) /\ LogOpen
    \/ \E s \in DictateSids, msg \in DictateMessages :
          Cardinality(Turns) < MaxTurns /\ on_ws_message(s, msg) /\ LogTurn(msg)
    \/ \E s \in DictateSids : on_ws_close(s, 0)
    \/ \E s \in DictateSids : WsCleanup(s)
    \/ \E j \in StopIds : StopGuard(j)
    \/ \E j \in StopIds : StopTerminate(j, TRUE)
    \/ \E j \in StopIds : StopSignal(j)
    \/ \E j \in StopIds : StopClose(j)
    \/ \E j \in StopIds : StopJoin(j)
    \/ \E j \in StopIds : StopPaste(j)
    \/ \E j \in StopIds : StopClear(j) /\ paste_obs' = "pasted"
    \/ \E j \in StopIds : StopCleanup(j)

SpecDictate == Init /\ [][NextDictate]_vars

\* ------------------------------------------------------------ the accumulator alone
\* on_ws_message on a session that is recording, from an empty accumulator, for
\* every sequence of messages, each logged.
\* messages per behaviour of SpecAccum
AccumTurns == 3

InitAccum ==
    /\ now = T0
    /\ trigger_pressed = TRUE
    /\ last_trigger_time = T0
    /\ recording = TRUE
    /\ connecting = FALSE
    /\ connection_active = TRUE
    /\ recent_errors = 0
    /\ last_stop_time = 0
    /\ last_error_time = 0
    /\ recording_start_time = T0
    /\ stream = 1
    /\ ws_app = 1
    /\ ws_thread = 1
    /\ stop_event = FALSE
    /\ final_transcript = <<>>
    /\ st = [s \in Sids |-> IF s = 1 THEN "done" ELSE "idle"]
    /\ stream_state = [s \in Sids |-> IF s = 1 THEN "open" ELSE "none"]
    /\ wt = [s \in Sids |-> IF s = 1 THEN "open" ELSE "none"]
    /\ closereq = [s \in Sids |-> FALSE]
    /\ sp = [j \in StopIds |-> NoStop]
    /\ evlog = <<>>
    /\ pasted = <<>>
    /\ start_obs = [result |-> "accepted", need |-> CONNECTION_COOLDOWN]
    /\ stop_obs = "none"
    /\ paste_obs = "none"
    /\ ends = <<>>
    /\ dropped = FALSE
    /\ fw = [s \in Sids |-> IF s = 1 THEN "poll" ELSE "none"]
    /\ termreq = [s \in Sids |-> FALSE]
    /\ acc_sessions = {}

NextAccum ==
    \E msg \in Messages : Len(evlog) < AccumTurns /\ on_ws_message(1, msg) /\ LogTurn(msg)

SpecAccum == InitAccum /\ [][NextAccum]_vars

\* ------------------------------------------------------------ the end of a dictation
\* One session slot on a calm network whose remote side sends its final turns
\* only in answer to Terminate.  Time passes in debounce windows and minimum
\* durations, and by the join timeout while a join is waiting.
FinalSids == {1}
\* minimum recording durations after T0 that SpecFinal covers
FinalHorizon == 2

\* the clock while a join is waiting
JoinTimePasses ==
    /\ \E j \in StopIds : sp[j].pc = "join" /\ now - sp[j].join_start < JOIN_TIMEOUT
    /\ Tick(JOIN_TIMEOUT)

\* the next step of stop_recording thread j, whichever it is
StopStep(j) ==
    \/ StopGuard(j)
    \/ \E sent \in BOOLEAN : StopTerminate(j, sent)
    \/ StopSignal(j)
    \/ StopClose(j)
    \/ StopJoin(j)
    \/ StopPaste(j)
    \/ StopClear(j)
    \/ StopCleanup(j)

NextFinal ==
    \/ \E d \in {DEBOUNCE_DELAY, MIN_RECORDING_DURATION} :
          now + d <= T0 + FinalHorizon * MIN_RECORDING_DURATION /\ Tick(d)
    \/ JoinTimePasses
    \/ \E pressed \in BOOLEAN : handler(pressed, FinalSids) /\ UNCHANGED evlog
    \/ \E s \in FinalSids : StartGuard(s)
    \/ \E s \in FinalSids : StartSet(s)
    \/ \E s \in FinalSids : StartOpen(s, "started")
    \/ \E s \in FinalSids : on_ws_open(s) /\ UNCHANGED evlog
    \/ \E s \in FinalSids, msg \in DictateMessages :
          termreq[s] /\ RoomFor(msg) /\ on_ws_message(s, msg) /\ UNCHANGED evlog
    \/ \E s \in FinalSids : on_ws_close(s, 0)
    \/ \E s \in FinalSids : WsCleanup(s)
    \/ \E j \in StopIds : StopGuard(j)
    \/ \E j \in StopIds, sent \in BOOLEAN : StopTerminate(j, sent)
    \/ \E j \in StopIds : StopSignal(j)
    \/ \E j \in StopIds : StopClose(j)
    \/ \E j \in StopIds : StopJoin(j)
    \/ \E j \in StopIds : StopPaste(j)
    \/ \E j \in StopIds : StopClear(j)
    \/ \E j \in StopIds : StopCleanup(j)

SpecFinal == Init /\ [][NextFinal]_vars

\* the same with the scheduler's fairness: a stop_recording thread that can take
\* a step takes it, and the clock goes on while a join waits; nothing is assumed
\* of the websocket thread
SpecFinalFair ==
    /\ SpecFinal
    /\ \A j \in StopIds : WF_vars(StopStep(j))
    /\ WF_vars(JoinTimePasses)

\* ------------------------------------------------------------ forwarding audio
\* The calm network with the stream_audio threads running.
ForwardSids == 1..MaxSessions

NextForward ==
    \/ now + DEBOUNCE_DELAY <= T0 + CalmWindows * DEBOUNCE_DELAY /\ Tick(DEBOUNCE_DELAY)
    \/ now + CONNECTION_COOLDOWN
            <= T0 + CalmWindows * DEBOUNCE_DELAY + CalmCooldowns * CONNECTION_COOLDOWN
       /\ Tick(CONNECTION_COOLDOWN)
    \/ \E pressed \in BOOLEAN : handler(pressed, ForwardSids) /\ UNCHANGED evlog
    \/ \E s \in ForwardSids : StartGuard(s)
    \/ \E s \in ForwardSids : StartSet(s)
    \/ \E s \in ForwardSids : StartOpen(s, "started")
    \/ \E s \in ForwardSids : on_ws_open(s) /\ UNCHANGED evlog
    \/ \E s \in ForwardSids, read \in BOOLEAN : FwPoll(s, read)
    \/ \E s \in ForwardSids, sent \in BOOLEAN : FwSend(s, sent)
    \/ \E s \in ForwardSids : on_ws_close(s, 0)
    \/ \E s \in ForwardSids : WsCleanup(s)
    \/ \E j \in StopIds : StopGuard(j)
    \/ \E j \in StopIds : StopTerminate(j, TRUE)
    \/ \E j \in StopIds : StopSignal(j)
    \/ \E j \in StopIds : StopClose(j)
    \/ \E j \in StopIds : StopJoin(j)
    \/ \E j \in StopIds : StopPaste(j)
    \/ \E j \in StopIds : StopCleanup(j)

SpecForward == Init /\ [][NextForward]_vars

\* ------------------------------------------------------------ policy violations
\* The remote side may close a connection with status 1008.  stop_recording's
\* guards and its writes are two steps here, so that on_ws_close can run between
\* them.  Time passes in debounce windows while the session is recorded, then in
\* error cooldowns, and never while a stop_recording is between those two steps.
PolicySids == 1..MaxSessions
\* debounce windows after T0 that SpecPolicy covers
PolicyWindows == 2
\* error cooldowns after those windows that SpecPolicy covers
PolicyCooldowns == 1

NextPolicy ==
    \/ /\ now + DEBOUNCE_DELAY <= T0 + PolicyWindows * DEBOUNCE_DELAY
       /\ \A j \in StopIds : sp[j].pc # "write"
       /\ Tick(DEBOUNCE_DELAY)
    \/ /\ now >= T0 + PolicyWindows * DEBOUNCE_DELAY
       /\ \A j \in StopIds : sp[j].pc # "write"
       /\ now + ERROR_COOLDOWN
             <= T0 + PolicyWindows * DEBOUNCE_DELAY + PolicyCooldowns * ERROR_COOLDOWN
       /\ Tick(ERROR_COOLDOWN)
    \/ \E pressed \in BOOLEAN : handler(pressed, PolicySids) /\ UNCHANGED evlog
    \/ \E s \in PolicySids : StartGuard(s)
    \/ \E s \in PolicySids : StartSet(s)
    \/ \E s \in PolicySids : StartOpen(s, "started")
    \/ \E s \in PolicySids : on_ws_open(s) /\ UNCHANGED evlog
    \/ \E s \in PolicySids, code \in {0, POLICY_VIOLATION_CODE} : on_ws_close(s, code)
    \/ \E s \in PolicySids : WsCleanup(s)
    \/ \E j \in StopIds : StopCheck(j)
    \/ \E j \in StopIds : StopWrite(j)
    \/ \E j \in StopIds : StopTerminate(j, TRUE)
    \/ \E j \in StopIds : StopSignal(j)
    \/ \E j \in StopIds : StopClose(j)
    \/ \E j \in StopIds : StopJoin(j)
    \/ \E j \in StopIds : StopPaste(j)
    \/ \E j \in StopIds : StopCleanup(j)

SpecPolicy == Init /\ [][NextPolicy]_vars

\* ------------------------------------------------------------ one thread at a time
\* Sessions one after the other: the key, the clock and the remote side act only
\* when no start_recording or stop_recording thread is running and no websocket
\* callback is in progress or due.
SeqSids == 1..MaxSeqSessions
Running ==
    \/ \E s \in Sids : st[s] \in {"guard", "set", "open"}
    \/ \E j \in StopIds : sp[j].pc # "idle"
    \/ \E s \in Sids : wt[s] \in {"errored", "cleanup"}
    \/ \E s \in Sids : closereq[s] /\ Alive(s)

NextSeq ==
    \/ ~Running /\ now + DEBOUNCE_DELAY <= T0 + SeqHorizon * DEBOUNCE_DELAY
                /\ Tick(DEBOUNCE_DELAY)
    \/ \E pressed \in BOOLEAN : ~Running /\ handler(pressed, SeqSids) /\ UNCHANGED evlog
    \/ \E s \in SeqSids : StartGuard(s)
    \/ \E s \in SeqSids : StartSet(s)
    \/ \E s \in SeqSids, outcome \in StartOutcomes : StartOpen(s, outcome)
    \/ \E s \in SeqSids : ~Running /\ on_ws_open(s) /\ UNCHANGED evlog
    \/ \E s \in SeqSids, msg \in ErrorsMessages :
          ~Running /\ RoomFor(msg) /\ on_ws_message(s, msg) /\ UNCHANGED evlog
    \/ \E s \in SeqSids : ~Running /\ on_ws_error(s)
    \/ \E s \in SeqSids, code \in RemoteCodes : ~Running /\ on_ws_close(s, code)
    \/ \E s \in SeqSids : on_ws_close(s, 0)
    \/ \E s \in SeqSids : WsCleanup(s)
    \/ \E j \in StopIds : StopGuard(j)
    \/ \E j \in StopIds : StopTerminate(j, TRUE)
    \/ \E j \in StopIds : StopSignal(j)
    \/ \E j \in StopIds : StopClose(j)
    \/ \E j \in StopIds : StopJoin(j)
    \/ \E j \in StopIds : StopPaste(j)
    \/ \E j \in StopIds : StopClear(j) /\ paste_obs' = "pasted"
    \/ \E j \in StopIds : StopCleanup(j)

SpecSeq == Init /\ [][NextSeq]_vars

\* ------------------------------------------------------------ the cooldown alone
\* start_recording's guards from every cooldown state: the session is idle, a
\* Down edge has just spawned the thread of slot 1.  recent_errors and
\* last_error_time are written together (lines 253-254); error counts above 3
\* arise when overlapping sessions are closed with 1008 one after the other.
ErrorAges == {0, 1, 600, ERROR_WINDOW - 1, ERROR_WINDOW, ERROR_WINDOW + 1, 1800}
StopAges == {0, 59, 60, 199, 200, 399, 400, 799, 800, 1199, 1200, 1201}

InitCooldown ==
    /\ now = T0
    /\ trigger_pressed = TRUE
    /\ last_trigger_time = T0
    /\ recording = FALSE
    /\ connecting = FALSE
    /\ connection_active = FALSE
    /\ recent_errors \in 0..MaxErrors
    /\ last_error_time \in {T0 - a : a \in ErrorAges} \cup {0}
    /\ recent_errors > 0 => last_error_time > 0
    /\ last_stop_time \in {T0 - b : b \in StopAges} \cup {0}
            \cup {last_error_time + POLICY_VIOLATION_COOLDOWN - CONNECTION_COOLDOWN}
    /\ recording_start_time = 0
    /\ stream = None
    /\ ws_app = None
    /\ ws_thread = None
    /\ stop_event \in BOOLEAN
    /\ final_transcript = <<>>
    /\ st = [s \in Sids |-> IF s = 1 THEN "guard" ELSE "idle"]
    /\ stream_state = [s \in Sids |-> "none"]
    /\ wt = [s \in Sids |-> "none"]
    /\ closereq = [s \in Sids |-> FALSE]
    /\ sp = [j \in StopIds |-> NoStop]
    /\ evlog = <<>>
    /\ pasted = <<>>
    /\ start_obs = [result |-> "none", need |-> 0]
    /\ stop_obs = "none"
    /\ paste_obs = "none"
    /\ ends = <<>>
    /\ dropped = FALSE
    /\ fw = [s \in Sids |-> "none"]
    /\ termreq = [s \in Sids |-> FALSE]
    /\ acc_sessions = {}

NextCooldown == \E s \in {1} : StartGuard(s)

SpecCooldown == InitCooldown /\ [][NextCooldown]_vars

\* ------------------------------------------------------------ properties
\* the session flags and the resources of the sessions
sessionvars == <<recording, connecting, connection_active, final_transcript,
                 stop_event, stream, ws_app, ws_thread, stream_state, wt, closereq>>

\* session s has passed start_recording's guards and is not over: its
\* start_recording is still running, its capture stream is open or its websocket
\* thread is alive
InProgress(s) == st[s] \in {"set", "open"} \/ stream_state[s] = "open" \/ Alive(s)

\* a stop_recording has cleared the flags on the normal path and has not returned
Finalizing == \E j \in StopIds : sp[j].path = "normal" /\ sp[j].pc # "idle"

\* the delay the cooldown policy asks for, from the error count and the age of the
\* last error
ExpectedDelay(errs, age) ==
    IF errs >= 1 /\ age < ERROR_WINDOW
    THEN Min(ERROR_COOLDOWN * Pow2(errs - 1), COOLDOWN_CAP)
    ELSE CONNECTION_COOLDOWN

\* C1: at most one session is in progress at any instant
C1_AtMostOneSession == Cardinality({s \in Sids : InProgress(s)}) <= 1

\* C2: a start_recording whose guards run while a session is Connecting, Recording
\* or Finalizing is rejected and changes nothing of the session
C2_StartWhileBusyIsNoOp ==
    [][\A s \in Sids :
          (st[s] = "guard" /\ st'[s] # "guard" /\ (connecting \/ recording \/ Finalizing))
          => (st'[s] = "idle" /\ UNCHANGED sessionvars)]_vars

\* Down accepted at t = 0, stream open at t = 0.05 s, Up delivered at t = 0.2 s, and
\* no other trigger event or stream opening
TapScenario ==
    /\ Len(evlog) = 3
    /\ evlog[1] = [ev |-> "down", at |-> T0, acc |-> TRUE]
    /\ evlog[2] = [ev |-> "open", at |-> T0 + 1, acc |-> TRUE]
    /\ evlog[3].ev = "up" /\ evlog[3].at = T0 + 4

\* every start_recording and stop_recording thread has returned
ThreadsDone ==
    /\ \A s \in Sids : st[s] \in {"idle", "done"}
    /\ \A j \in StopIds : sp[j].pc = "idle"

\* C3: in the tap scenario, once the threads the two edges spawned have returned,
\* the stop was classified too short, nothing was pasted and the session is idle
C3_TapEndsTooShort ==
    (TapScenario /\ ThreadsDone)
    => /\ stop_obs = "tooshort"
       /\ pasted = <<>>
       /\ ~recording /\ ~connecting /\ ~connection_active

\* the raw trigger events, in order of arrival
IsKey(e) == e.ev \in {"down", "up"}
KeySeq == SelectSeq(evlog, IsKey)
\* consecutive raw events are closer together than the debounce window
Burst(k) == \A i \in 2..Len(k) : k[i].at - k[i - 1].at < DEBOUNCE_DELAY
Downs(k) == {i \in DOMAIN k : k[i].ev = "down"}
UpsAfter(k, d) == {i \in DOMAIN k : k[i].ev = "up" /\ i > d}

\* C4: in a burst exactly the first Down edge and the first Up edge (after it) are
\* accepted
C4_FirstOfEachPolarity ==
    LET k == KeySeq
    IN  (Burst(k) /\ Downs(k) # {})
        => \A i \in DOMAIN k :
              k[i].acc <=> \/ i = SetMin(Downs(k))
                           \/ /\ UpsAfter(k, SetMin(Downs(k))) # {}
                              /\ i = SetMin(UpsAfter(k, SetMin(Downs(k))))

\* C5: a start_recording whose guards run before the required delay has elapsed
\* since last_stop_time is rejected and changes nothing of the session; when the
\* cooldown is what rejects it, the flags are false before and after
C5_CooldownRejectChangesNothing ==
    [][\A s \in Sids :
          (/\ st[s] = "guard" /\ st'[s] # "guard"
           /\ now - last_stop_time < ExpectedDelay(recent_errors, now - last_error_time))
          => /\ st'[s] = "idle"
             /\ UNCHANGED sessionvars
             /\ start_obs'.result = "cooldown"
                   => ~recording' /\ ~connecting' /\ ~connection_active']_vars

\* a start_recording has just been rejected by the cooldown, after a stop
C5_Witness ==
    /\ start_obs.result = "cooldown"
    /\ last_stop_time > 0
    /\ now - last_stop_time < CONNECTION_COOLDOWN

\* C6: a start_recording is accepted only when the base cooldown has elapsed since
\* the latest session end, whichever way that session ended
C6_CooldownAfterEveryEnd ==
    [][\A s \in Sids :
          (st[s] = "guard" /\ st'[s] = "set" /\ ends # <<>>)
          => now - ends[Len(ends)][2] >= CONNECTION_COOLDOWN]_vars

\* C7: the delay start_recording requires since last_stop_time is the base cooldown
\* without a recent error and min(10 s * 2^(recent_errors - 1), 60 s) with one; it
\* never exceeds 60 s, and the start is accepted exactly when it has elapsed
C7_RequiredDelay ==
    [][\A s \in Sids :
          (st[s] = "guard" /\ start_obs'.result \in {"cooldown", "accepted"})
          => /\ start_obs'.need = ExpectedDelay(recent_errors, now - last_error_time)
             /\ start_obs'.need <= COOLDOWN_CAP
             /\ start_obs'.result = "accepted"
                   <=> now - last_stop_time >= ExpectedDelay(recent_errors, now - last_error_time)
             /\ st'[s] = "set" <=> start_obs'.result = "accepted"]_vars

\* the guards have run with four or more recent errors: the backoff is capped
C7_Witness ==
    /\ start_obs.result \in {"cooldown", "accepted"}
    /\ recent_errors >= 4
    /\ start_obs.need = COOLDOWN_CAP

\* the last three sessions were each ended by a dropped stream, within 60 s
DroppedRun ==
    LET n == Len(ends)
    IN  /\ n >= 3
        /\ \A i \in (n - 2)..n : ends[i][1] \in {"error", "close"}
        /\ ends[n][2] - ends[n - 2][2] <= ERROR_WINDOW

\* C8: after three dropped sessions within 60 s the next start_recording is
\* accepted exactly when 40 s have elapsed since the last session end
C8_FourthStartWaits ==
    [][\A s \in Sids :
          (st[s] = "guard" /\ st'[s] # "guard" /\ DroppedRun)
          => (st'[s] = "set" <=> now - ends[Len(ends)][2] >= 4 * ERROR_COOLDOWN)]_vars

\* C9: a step in which a failed handshake, a transport error or a close frame ends
\* the session leaves it idle, adds one to recent_errors and stamps last_error_time
C9_DropCountsAsError ==
    [][(Len(ends') > Len(ends) /\ ends'[Len(ends')][1] \in {"error", "close"})
          => /\ ~recording' /\ ~connecting' /\ ~connection_active'
             /\ recent_errors' = recent_errors + 1
             /\ last_error_time' = now]_vars

\* C10: a stop_recording classified too short pastes nothing and returns with the
\* accumulator empty
C10_TooShortDiscards ==
    [][\A j \in StopIds :
          (sp[j].path = "tooshort" /\ sp'[j].pc = "idle")
          => (pasted' = pasted /\ final_transcript' = <<>>)]_vars

\* the session is Connecting: a start was accepted and on_ws_open has not fired
Connecting == connecting /\ ~recording /\ ~connection_active

\* C11: a stop_recording whose guards run while the session is Connecting returns
\* at once and changes no flag, timestamp, event or websocket
C11_StopWhileConnectingRejected ==
    [][\A j \in StopIds :
          (sp[j].pc = "guard" /\ sp'[j].pc # "guard" /\ Connecting)
          => /\ sp'[j] = NoStop
             /\ UNCHANGED <<recording, connecting, connection_active, last_stop_time,
                            recording_start_time, stop_event, stream, ws_app, ws_thread,
                            stream_state, wt, closereq>>]_vars

\* a stop_recording on the normal path has not reached its paste yet
NormalPending ==
    \E j \in StopIds : sp[j].path = "normal" /\ sp[j].pc \in {"term", "sig", "close", "join", "paste"}

IsPrefix(a, b) == Len(a) <= Len(b) /\ SubSeq(b, 1, Len(a)) = a

\* C12: paste_text is called only by a normal stop, with the whole non-empty
\* accumulator; the accumulator a normal stop is about to paste is emptied only
\* by the clearing that follows the paste of exactly that text; and no text is
\* pasted while another stop_recording has pasted it and not yet cleared it
C12_PastedExactlyOnce ==
    [][/\ pasted' # pasted
          => /\ \E j \in StopIds : /\ sp[j].pc = "paste" /\ sp[j].path = "normal"
                                   /\ sp'[j].pc = "clear"
             /\ final_transcript # <<>>
             /\ pasted' = Append(pasted, final_transcript)
             /\ ~\E j \in StopIds : sp[j].pc = "clear" /\ IsPrefix(sp[j].text, final_transcript)
       /\ (final_transcript # <<>> /\ final_transcript' = <<>>)
          => \/ \E j \in StopIds : /\ sp[j].pc = "clear" /\ sp'[j].pc = "cleanup"
                                   /\ sp[j].text = final_transcript
             \/ ~NormalPending]_vars

\* Down accepted at t = 0, the stream opens, the final turns "hello" and "world"
\* arrive in that order, Up at t = 1.0 s (20 ticks), and nothing else happens
DictationLog ==
    /\ Len(evlog) = 5
    /\ evlog[1] = [ev |-> "down", at |-> T0, acc |-> TRUE]
    /\ evlog[2].ev = "open"
    /\ evlog[3].ev = "turn" /\ evlog[3].acc /\ evlog[3].text = <<"hello">>
    /\ evlog[4].ev = "turn" /\ evlog[4].acc /\ evlog[4].text = <<"world">>
    /\ evlog[5].ev = "up" /\ evlog[5].at = T0 + 20

\* the stream opened at least the minimum recording duration before the Up
OpenedInTime == evlog[2].at + MIN_RECORDING_DURATION <= T0 + 20

IsFinalSegment(e) == e.ev = "turn" /\ e.acc /\ Strip(e.text) # <<>>
Segments ==
    LET f == SelectSeq(evlog, IsFinalSegment)
    IN  [i \in 1..Len(f) |-> Strip(f[i].text)]

\* s1 + " " + s2 + ... + " " + sn
RECURSIVE JoinSegments(_)
JoinSegments(segs) ==
    IF segs = <<>> THEN <<>>
    ELSE IF Len(segs) = 1 THEN segs[1]
    ELSE segs[1] \o <<" ">> \o JoinSegments(Tail(segs))

\* C14: the accumulator is the received non-empty final segments joined by single
\* spaces in arrival order, with no leading, trailing or doubled separator
C14_AccumulatorIsJoin ==
    /\ final_transcript = JoinSegments(Segments)
    /\ final_transcript # <<>>
          => /\ final_transcript[1] # " "
             /\ final_transcript[Len(final_transcript)] # " "
             /\ \A i \in 1..(Len(final_transcript) - 1) :
                   ~(final_transcript[i] = " " /\ final_transcript[i + 1] = " ")

\* "hello" then "world" were received as final segments
C14_Witness ==
    /\ Segments = << <<"hello">>, <<"world">> >>
    /\ final_transcript = <<"hello", " ", "world">>

\* C15: on_ws_error on a recording session leaves the session idle with
\* stop_event set and starts no finalization, and paste_text is never called
\* while the accumulator holds the text of a session that ended that way
C15_ErroredTranscriptDiscarded ==
    [][/\ \A s \in Sids :
             (/\ recording /\ wt[s] = "open" /\ wt'[s] = "errored"
              /\ \A j \in StopIds : sp[j].pc = "idle")
             => /\ ~recording' /\ ~connecting' /\ ~connection_active'
                /\ stop_event'
                /\ sp' = sp /\ pasted' = pasted
       /\ pasted' # pasted => ~dropped]_vars

\* C16: an on_ws_open that arrives after its websocket was closed by a
\* stop_recording or a cleanup_audio leaves recording as it is
C16_NoRecordingAfterClose ==
    [][\A s \in Sids :
          (wt[s] = "connect" /\ wt'[s] = "open" /\ closereq[s])
          => recording' = recording]_vars

\* nothing is running: no session flag is set, every start_recording and
\* stop_recording has returned and every websocket thread has ended
Quiescent ==
    /\ ~recording /\ ~connecting /\ ~connection_active
    /\ ThreadsDone
    /\ \A s \in Sids : ~Alive(s)

\* C17: once a session is over and its threads have ended, no capture stream is
\* open and the websocket reference is released
C17_ResourcesReleased ==
    Quiescent => (ws_app = None /\ \A s \in Sids : stream_state[s] # "open")

\* session b has been started and its capture stream or websocket is in use
Started(b) == st[b] = "done" /\ (stream_state[b] = "open" \/ Alive(b))

\* C18: a late on_ws_error or on_ws_close of session a, and the cleanup_audio that
\* on_ws_close runs, leave alone a session b started after a: its capture stream,
\* its websocket, the flags and stop_event
C18_EarlierTeardownSparesLater ==
    [][\A a \in Sids, b \in Sids :
          (/\ a < b /\ Started(b)
           /\ wt'[a] # wt[a] /\ wt'[a] \in {"errored", "cleanup", "dead"})
          => /\ stream_state'[b] = stream_state[b]
             /\ closereq'[b] = closereq[b]
             /\ UNCHANGED <<recording, connecting, connection_active, stop_event>>]_vars

\* a raw trigger event has just been handled
KeyStep == Len(evlog') = Len(evlog) + 1 /\ evlog'[Len(evlog')].ev \in {"down", "up"}

\* C19: an edge is accepted only when the debounce window has elapsed since the
\* last accepted edge, and an event inside the window changes nothing: no flag,
\* no timestamp, no thread, nothing kept for later
C19_DebounceDropsSilently ==
    [][KeyStep
          => LET e == evlog'[Len(evlog')]
             IN  /\ e.acc => (now - last_trigger_time >= DEBOUNCE_DELAY
                              /\ last_trigger_time' = now)
                 /\ now - last_trigger_time < DEBOUNCE_DELAY
                       => /\ ~e.acc
                          /\ UNCHANGED <<now, progvars, threadvars, pasted, start_obs,
                                         stop_obs, ends, dropped, acc_sessions>>]_vars

\* an event has just been dropped inside the debounce window of an accepted edge
C19_Witness ==
    /\ evlog # <<>>
    /\ evlog[Len(evlog)].ev \in {"down", "up"} /\ ~evlog[Len(evlog)].acc
    /\ now - last_trigger_time < DEBOUNCE_DELAY
    /\ \E i \in DOMAIN evlog : evlog[i].ev \in {"down", "up"} /\ evlog[i].acc

\* the accepted edges, in order
IsAccepted(e) == e.ev \in {"down", "up"} /\ e.acc
Accepted == SelectSeq(evlog, IsAccepted)
Alternates(a) == \A i \in DOMAIN a : a[i].ev = IF i % 2 = 1 THEN "down" ELSE "up"
StartsIn(f) == {s \in Sids : f[s] = "guard"}
StopsIn(f) == {j \in StopIds : f[j].pc = "guard"}

\* C20: the accepted edges alternate Down, Up, Down, ... from a Down, and handling
\* a raw event spawns one start_recording for an accepted Down, one
\* stop_recording for an accepted Up, and nothing otherwise
C20_EdgesAlternate ==
    [][KeyStep
          => LET e == evlog'[Len(evlog')]
             IN  /\ Alternates(Accepted')
                 /\ Cardinality(StartsIn(st') \ StartsIn(st))
                       = IF e.acc /\ e.ev = "down" THEN 1 ELSE 0
                 /\ Cardinality(StopsIn(sp') \ StopsIn(sp))
                       = IF e.acc /\ e.ev = "up" THEN 1 ELSE 0]_vars

\* Down, Up, Down were accepted among duplicate events
C20_Witness ==
    /\ Len(Accepted) = 3
    /\ Len(evlog) > 3

Idle == ~recording /\ ~connecting /\ ~connection_active

\* C22: a stop_recording whose guard runs while the session is Idle returns at
\* once: no flag, timestamp, event or transcript changes, nothing is closed and
\* nothing is pasted
C22_StopWhileIdleIsNoOp ==
    [][\A j \in StopIds :
          (sp[j].pc = "guard" /\ sp'[j].pc # "guard" /\ Idle)
          => /\ sp'[j] = NoStop
             /\ UNCHANGED <<recording, connecting, connection_active, last_stop_time,
                            recording_start_time, stop_event, final_transcript, stream,
                            ws_app, ws_thread, stream_state, wt, closereq, pasted, ends>>]_vars

\* a stop_recording has returned from an Idle session that an earlier stop had
\* ended, and no stop_recording is running
C22_Witness ==
    /\ stop_obs = "idle"
    /\ last_stop_time > 0
    /\ \A j \in StopIds : sp[j].pc = "idle"

\* C23: start_recording empties the accumulator when the session enters
\* Connecting, and the text handed to paste_text holds the segments of one
\* session only
C23_PastedOwnSegmentsOnly ==
    [][/\ \A s \in Sids : (st[s] = "set" /\ st'[s] = "open") => final_transcript' = <<>>
       /\ pasted' # pasted => Cardinality(acc_sessions) <= 1]_vars

\* C24: while a start_recording is between its guards and the writes that follow
\* them, no other start_recording or stop_recording evaluates its guard and no
\* thread writes the session flags
C24_GuardAndWritesAtomic ==
    [][\A s \in Sids :
          (st[s] = "set" /\ st'[s] = "set")
          => /\ UNCHANGED <<recording, connecting, connection_active>>
             /\ \A b \in Sids : ~(st[b] = "guard" /\ st'[b] # "guard")
             /\ \A j \in StopIds : ~(sp[j].pc = "guard" /\ sp'[j].pc # "guard")]_vars

\* C25: a start_recording is accepted only after every stop_recording on the
\* normal path has finished its cleanup and returned (the cooldown counts from
\* there)
C25_CooldownFromEndOfCleanup ==
    [][\A s \in Sids : (st[s] = "guard" /\ st'[s] = "set") => ~Finalizing]_vars

\* C26: on the normal stop path Terminate is sent only on a connected websocket
\* that is not yet closed; the websocket is closed with stop_event set; the join
\* returns when the thread has ended or the timeout has passed; paste_text is
\* called after all that, with the whole accumulator, which until then only
\* grows: a final Turn received after Terminate is part of the pasted text
C26_StopOrder ==
    [][/\ \A s \in Sids :
             (termreq'[s] /\ ~termreq[s])
             => /\ Connected(s) /\ ~closereq[s]
                /\ \E j \in StopIds : sp[j].pc = "term" /\ sp[j].path = "normal"
       /\ \A j \in StopIds :
             /\ (sp[j].pc = "close" /\ sp'[j].pc # "close") => stop_event
             /\ (sp[j].pc = "join" /\ sp'[j].pc # "join")
                => (~Alive(sp[j].ttj) \/ now - sp[j].join_start >= JOIN_TIMEOUT)
       /\ pasted' # pasted
          => /\ stop_event /\ ws_app = None
             /\ \A s \in Sids : st[s] = "done" => closereq[s]
             /\ pasted' = Append(pasted, final_transcript)
       /\ NormalPending => IsPrefix(final_transcript, final_transcript')]_vars

\* "hello" and "world" arrived after Terminate and were pasted after a join that
\* timed out
C26_Witness ==
    /\ termreq[1] /\ Alive(1)
    /\ pasted = << <<"hello", " ", "world">> >>

\* C27: a stop_recording on the normal path returns, whatever the websocket
\* thread does, and when it returns the session is Idle, the stream reference is
\* released and no capture stream is open
C27_StopTerminates ==
    /\ \A j \in StopIds : (sp[j].path = "normal") ~> (sp[j].pc = "idle")
    /\ [][\A j \in StopIds :
             (sp[j].path = "normal" /\ sp'[j].pc = "idle")
             => /\ Idle'
                /\ stream' = None /\ ws_app' = None
                /\ \A s \in Sids : stream_state'[s] # "open"]_vars

\* a normal stop_recording has returned while the websocket thread is still alive
C27_Witness ==
    /\ stop_obs = "normal"
    /\ \A j \in StopIds : sp[j].pc = "idle"
    /\ \E s \in Sids : Alive(s) /\ closereq[s]
    /\ Idle /\ stream = None

\* the stream_audio thread of session s is running
Forwarding(s) == fw[s] \in {"poll", "send"}

\* C28: a forwarding loop finds its loop condition true and goes on only while
\* no other session's forwarding loop is running
C28_OneForwardingLoop ==
    [][\A s \in Sids :
          (fw[s] = "poll" /\ fw'[s] = "send")
          => \A b \in Sids \ {s} : ~Forwarding(b)]_vars

\* the step is the end of session s's forwarding loop by a failed read or send
LoopFails(s) ==
    /\ Forwarding(s) /\ fw'[s] = "done"
    /\ fw[s] = "send" \/ (recording /\ ~stop_event)

\* C29: a forwarding loop that ends on a failed read or send changes nothing but
\* its own position: the flags, the events, the stream, the websocket and every
\* other thread stay as they are, so a session that was Recording still is
C29_LoopExitChangesNothing ==
    [][\A s \in Sids :
          LoopFails(s)
          => /\ UNCHANGED <<now, progvars, st, stream_state, wt, closereq, sp, termreq,
                            histvars>>
             /\ recording' = recording /\ connecting' = connecting
             /\ connection_active' = connection_active]_vars

\* the forwarding loop of the current session has ended and the session is
\* still Recording with its websocket open
C29_Witness ==
    \E s \in Sids :
        /\ fw[s] = "done" /\ ws_app = s /\ Connected(s) /\ ~closereq[s]
        /\ recording /\ connection_active /\ ~stop_event
        /\ \A b \in Sids \ {s} : fw[b] = "none"

\* a message that is not a Turn (Begin or Termination) has just been received
ControlStep == Len(evlog') = Len(evlog) + 1 /\ evlog'[Len(evlog')].ev = "other"

\* C30: receiving a Termination (or Begin) message changes no flag, timestamp or
\* event, leaves the accumulator, the websocket, the capture stream and every
\* thread as they are, and pastes nothing
C30_TerminationChangesNothing ==
    [][ControlStep
          => UNCHANGED <<now, progvars, threadvars, pasted, start_obs, stop_obs, ends,
                         dropped, acc_sessions>>]_vars

\* a final "hello" and then a control message were received, and the session is
\* still Recording with its stream and websocket open and the text kept
C30_Witness ==
    /\ Len(evlog) = 2 /\ evlog[2].ev = "other"
    /\ final_transcript = <<"hello">>
    /\ recording /\ connection_active /\ ~stop_event
    /\ Connected(1) /\ ~closereq[1] /\ stream_state[1] = "open" /\ pasted = <<>>

\* a Turn message has just been received
TurnStep == Len(evlog') = Len(evlog) + 1 /\ evlog'[Len(evlog')].ev = "turn"

\* C31: a Turn message changes the accumulator exactly when it is final and its
\* text is non-empty after stripping; a partial Turn and a final Turn of
\* whitespace leave it as it is
C31_OnlyFinalNonEmptyTurns ==
    [][TurnStep
          => LET e == evlog'[Len(evlog')]
             IN  (final_transcript' # final_transcript) <=> (e.acc /\ Strip(e.text) # <<>>)]_vars

\* a partial "hello" and a final Turn of whitespace were received and the
\* accumulator is still empty
C31_Witness ==
    /\ Len(evlog) = 2
    /\ evlog[1].ev = "turn" /\ ~evlog[1].acc /\ evlog[1].text = <<"hello">>
    /\ evlog[2].ev = "turn" /\ evlog[2].acc /\ evlog[2].text = <<" ">>
    /\ final_transcript = <<>>

\* C32: a start_recording whose audio.open fails returns with the three flags
\* false, without a websocket or a websocket thread of its own, and with
\* recent_errors, last_error_time and last_stop_time as they were
C32_CaptureFailureBackToIdle ==
    [][\A s \in Sids :
          (st[s] = "open" /\ st'[s] = "idle" /\ stream_state'[s] = "none")
          => /\ Idle'
             /\ wt'[s] = "none" /\ ws_app' = ws_app /\ ws_thread' = ws_thread
             /\ UNCHANGED <<recent_errors, last_error_time, last_stop_time>>]_vars

\* an accepted start_recording has returned with nothing opened and the session
\* Idle, while the trigger is held
C32_Witness ==
    /\ start_obs.result = "accepted" /\ trigger_pressed
    /\ \A s \in Sids : st[s] = "idle" /\ stream_state[s] = "none" /\ wt[s] = "none"
    /\ Idle /\ recent_errors = 0 /\ last_error_time = 0

\* C33: a stop_recording classified too short, from its guard to its return,
\* writes neither recent_errors nor last_error_time nor last_stop_time, so the
\* delay the next start_recording requires is what it was
C33_TooShortIsNoError ==
    [][\A j \in StopIds :
          (sp'[j] # sp[j] /\ (sp'[j].path = "tooshort" \/ sp[j].path = "tooshort"))
          => /\ UNCHANGED <<recent_errors, last_error_time, last_stop_time>>
             /\ CooldownNeeded(recent_errors', now' - last_error_time')
                   = CooldownNeeded(recent_errors, now - last_error_time)]_vars

\* a too-short stop_recording has returned and no error is counted
C33_Witness ==
    /\ stop_obs = "tooshort"
    /\ \A j \in StopIds : sp[j].pc = "idle"
    /\ recent_errors = 0 /\ last_error_time = 0 /\ last_stop_time = 0

\* C34: the complete transcript is in the transcript log when paste_text is
\* called; a paste_text that fails still returns to stop_recording, which clears
\* the accumulator and goes on to cleanup_audio; when that stop_recording
\* returns the session is Idle with no capture stream
C34_PasteFailureNotFatal ==
    [][/\ pasted' # pasted => paste_obs' = "logged"
       /\ \A j \in StopIds :
             /\ (sp[j].pc = "clear" /\ sp'[j].pc # "clear")
                => /\ final_transcript' = <<>>
                   /\ sp'[j].pc = "cleanup"
             /\ (sp[j].path = "normal" /\ sp[j].pc # "idle" /\ sp'[j].pc = "idle")
                => /\ sp[j].pc = "cleanup"
                   /\ Idle' /\ stream' = None
                   /\ \A s \in Sids : stream_state'[s] # "open"]_vars

\* a stop_recording whose paste_text raised has returned: the text was handed to
\* paste_text, the accumulator is empty and the session is Idle
C34_Witness ==
    /\ paste_obs = "error"
    /\ pasted # <<>>
    /\ \A j \in StopIds : sp[j].pc = "idle"
    /\ final_transcript = <<>>
    /\ Idle /\ stream = None

\* no start_recording or stop_recording thread is running and no websocket
\* callback is due: only a key event, a server message or the server's close
\* can change the session
Settled ==
    /\ \A s \in Sids : st[s] \in {"idle", "done"}
    /\ \A j \in StopIds : sp[j].pc = "idle"
    /\ \A s \in Sids : wt[s] \in {"none", "open", "dead"} /\ (wt[s] = "open" => ~closereq[s])

\* C35: once the trigger is released and the threads its events started have
\* run to their end, the session is Idle and no capture stream is open: nothing
\* is left Connecting or Recording to wait for a key event
C35_ReleasedSessionEnds ==
    (~trigger_pressed /\ Settled)
    => (Idle /\ \A s \in Sids : stream_state[s] # "open")

\* C36: text is handed to paste_text only by a step of a stop_recording thread
\* on its normal path, and a stop_recording thread is started only by an event
\* that releases the trigger: no message and no websocket callback pastes
C36_PasteOnlyFromStop ==
    [][/\ pasted' # pasted
          => \E j \in StopIds :
                sp[j].pc = "paste" /\ sp[j].path = "normal" /\ sp'[j].pc = "clear"
       /\ \A j \in StopIds :
             (sp[j].pc = "idle" /\ sp'[j].pc # "idle")
             => (trigger_pressed /\ ~trigger_pressed')]_vars

\* a text was pasted by a stop_recording that is still running, and a final Turn
\* has arrived since
C36_Witness ==
    /\ pasted # <<>>
    /\ final_transcript # <<>>
    /\ \E j \in StopIds : sp[j].pc = "clear"

\* C37: a start_recording passes its guards, on its way to Connecting, only when
\* POLICY_VIOLATION_COOLDOWN has passed since the latest close with status 1008
\* (on_ws_close alone writes last_error_time, line 254)
C37_PolicyCooldownHolds ==
    [][\A s \in Sids :
          (st[s] = "guard" /\ st'[s] = "set")
          => now - last_error_time >= POLICY_VIOLATION_COOLDOWN]_vars

\* C38: connecting and recording are never both true, and connection_active is
\* true only while recording is: the flags always read Idle, Connecting or
\* Recording
C38_FlagsEncodeOneState ==
    /\ ~(connecting /\ recording)
    /\ connection_active => recording

\* C39: recording_start_time is non-zero only while recording is true
C39_StartTimeOnlyWhileRecording ==
    recording_start_time # 0 => recording

\* C40: the forwarding loop of a session reads a frame only from the capture
\* stream that session opened (the frame then goes out on the loop's own
\* websocket, FwSend), and only while the session flags say Recording
C40_FramesOfOwnSession ==
    [][\A s \in Sids :
          (fw[s] = "poll" /\ fw'[s] = "send")
          => (stream = s /\ recording)]_vars

====
